---- MODULE Spec2Model ----
(***************************************************************************)
(* A model of threeML/utils/binner.py: the Rebinner (bins of a reference   *)
(* vector that keep a minimum value per bin, with a mask) and the          *)
(* TemporalBinner (bins of a list of arrival times).                       *)
(*                                                                         *)
(* Indices are the 0-based indices of the Python code; a Python sequence   *)
(* s is the TLA+ sequence whose element s[i] is At(s, i).  Numbers are     *)
(* integers: the counts, thresholds and times of the model are small       *)
(* integers, on which numpy's float arithmetic is exact.                   *)
(***************************************************************************)
EXTENDS Integers, Sequences, FiniteSets, TLC

\* ---------------------------------------------------------------- bounds
MaxN == 3
MaxVal == 1
MaxM == 2
MaxX == 1
MaxW == 1
MaxLen == 4
MaxTime == 4
MaxSigma == 1
MaxMinCounts == 2
MaxDt == 2
MaxP0 == 1
MaxArrivals == 3

\* ---------------------------------------------------- program constants
\* the 1e-4 of rebin's relative comparison, as its inverse
RelTolInv == 10000

\* ------------------------------------------------------- numeric helpers
At(s, i) == s[i + 1]

\* s[i] of Python, where a negative index counts from the end
PyAt(s, i) == IF i < 0 THEN s[Len(s) + i + 1] ELSE s[i + 1]

Min(a, b) == IF a < b THEN a ELSE b

Abs(x) == IF x < 0 THEN -x ELSE x

RECURSIVE SumSeq(_)
SumSeq(s) == IF s = <<>> THEN 0 ELSE s[1] + SumSeq(Tail(s))

\* s[lo:hi], the Python slice (clipped to the sequence like numpy's)
Slice(s, lo, hi) ==
    LET h == IF hi > Len(s) THEN Len(s) ELSE hi
    IN  IF lo >= h THEN <<>> ELSE [k \in 1..(h - lo) |-> s[lo + k]]

\* vector_a[self._mask], numpy's boolean selection
RECURSIVE Select(_, _)
Select(s, mk) ==
    IF s = <<>> THEN <<>>
    ELSE (IF mk[1] THEN <<s[1]>> ELSE <<>>) \o Select(Tail(s), Tail(mk))

Vectors(n, top) == [1..n -> 0..top]

\* ================================================================
\* Rebinner
\* ================================================================
VARIABLES
    r_state,    \* "new" | "constructed" | "NotEnoughData" | "AssertionError"
    r_mask,     \* self._mask
    r_starts,   \* self._starts
    r_stops,    \* self._stops
    r_min,      \* self._min_value_per_bin
    call        \* the last call on the instance: its name, its arguments,
                \* what it raised ("" when nothing) and what it returned

rvars == <<r_state, r_mask, r_starts, r_stops, r_min, call>>

\* threads that call the methods of one Rebinner, or the binning methods of
\* TemporalBinner instances, at the same time
VARIABLES
    thr,        \* per thread: the Rebinner call it is in, its arguments and locals
    binners,    \* per TemporalBinner instance: its _starts and _stops
    callers     \* per thread: the TemporalBinner call it is in, and its locals

cvars == <<thr, binners, callers>>

NoCall == [op |-> "none", raised |-> ""]

CtorCall(v, m, has_mask, mask, raised) ==
    [op |-> "__init__", v |-> v, m |-> m, has_mask |-> has_mask, mask |-> mask,
     raised |-> raised]

\* Total, had it been taken over the elements the mask includes only
Total_OverMask(v, mask) ==
    IF Len(mask) = Len(v) THEN SumSeq(Select(v, mask)) ELSE SumSeq(v)

\* total = np.sum(vector_to_rebin_on)
Total(v, mask) == SumSeq(v)

\* mask = np.ones_like(vector_to_rebin_on, dtype=bool)
OnesLike(v) == [k \in 1..Len(v) |-> TRUE]

LoopInit == [starts |-> <<>>, stops |-> <<>>, n |-> 0, bin_open |-> FALSE]

\* MaskedOutStep, had it left the open bin open across the masked element
MaskedOutStep_KeepsOpen(st, index) == st

\* MaskedOutStep, had it discarded the bin that is open (and so still under
\* the threshold) at a masked element
MaskedOutStep_DiscardsOpenBin(st, index) ==
    IF ~st.bin_open
    THEN st
    ELSE [st EXCEPT !.starts = SubSeq(@, 1, Len(@) - 1), !.n = 0,
                    !.bin_open = FALSE]

\* MaskedOutStep, had it closed the open bin after the masked element
MaskedOutStep_ClosesPastElement(st, index) ==
    IF ~st.bin_open
    THEN st
    ELSE [st EXCEPT !.stops = Append(@, index + 1), !.n = 0, !.bin_open = FALSE]

\* the branch "if not mask[index]" of the loop body
MaskedOutStep(st, index) ==
    IF ~st.bin_open
    THEN st
    ELSE [st EXCEPT !.stops = Append(@, index), !.n = 0, !.bin_open = FALSE]

\* IncludedStep, had it counted the elements instead of adding their values
IncludedStep_CountsElements(st, index, b, m) ==
    LET opened == IF ~st.bin_open
                  THEN [st EXCEPT !.bin_open = TRUE,
                                  !.starts = Append(@, index), !.n = 0]
                  ELSE st
        added == [opened EXCEPT !.n = @ + 1]
    IN  IF added.n >= m
        THEN [added EXCEPT !.stops = Append(@, index + 1), !.n = 0,
                           !.bin_open = FALSE]
        ELSE added

\* IncludedStep, had it closed the bin only once it exceeds the threshold
IncludedStep_ClosesAboveThreshold(st, index, b, m) ==
    LET opened == IF ~st.bin_open
                  THEN [st EXCEPT !.bin_open = TRUE,
                                  !.starts = Append(@, index), !.n = 0]
                  ELSE st
        added == [opened EXCEPT !.n = @ + b]
    IN  IF added.n > m
        THEN [added EXCEPT !.stops = Append(@, index + 1), !.n = 0,
                           !.bin_open = FALSE]
        ELSE added

\* the branch "else" of the loop body: the element is included by the mask
IncludedStep(st, index, b, m) ==
    LET opened == IF ~st.bin_open
                  THEN [st EXCEPT !.bin_open = TRUE,
                                  !.starts = Append(@, index), !.n = 0]
                  ELSE st
        added == [opened EXCEPT !.n = @ + b]
    IN  IF added.n >= m
        THEN [added EXCEPT !.stops = Append(@, index + 1), !.n = 0,
                           !.bin_open = FALSE]
        ELSE added

\* for index, b in enumerate(vector_to_rebin_on), from `index` on
RECURSIVE Loop(_, _, _, _, _)
Loop(st, index, v, m, mask) ==
    IF index >= Len(v) THEN st
    ELSE Loop(IF ~At(mask, index)
              THEN MaskedOutStep(st, index)
              ELSE IncludedStep(st, index, At(v, index), m),
              index + 1, v, m, mask)

\* CloseTrailing, had it dropped the bin still open when the pass ends (as
\* bin_by_significance drops its last window)
CloseTrailing_DropsOpenBin(st, v) ==
    IF st.bin_open THEN [st EXCEPT !.starts = SubSeq(@, 1, Len(@) - 1)] ELSE st

\* "if bin_open: self._stops.append(len(vector_to_rebin_on))"
CloseTrailing(st, v) ==
    IF st.bin_open THEN [st EXCEPT !.stops = Append(@, Len(v))] ELSE st

\* the bins of a construction that got past its checks
BuildBins(v, m, mask) == CloseTrailing(Loop(LoopInit, 0, v, m, mask), v)

\* Rebinner.__init__(vector_to_rebin_on, min_value_per_bin, mask)
Construct(v, m, has_mask, mask) ==
    /\ r_state = "new"
    /\ IF Total(v, mask) < m
       THEN /\ r_state' = "NotEnoughData"
            /\ call' = CtorCall(v, m, has_mask, mask, "NotEnoughData")
            /\ UNCHANGED <<r_mask, r_starts, r_stops, r_min>>
       ELSE IF has_mask /\ Len(mask) # Len(v)
       THEN /\ r_state' = "AssertionError"
            /\ call' = CtorCall(v, m, has_mask, mask, "AssertionError")
            /\ UNCHANGED <<r_mask, r_starts, r_stops, r_min>>
       ELSE LET mk == IF has_mask THEN mask ELSE OnesLike(v)
                st == BuildBins(v, m, mk)
            IN  IF Len(st.starts) # Len(st.stops)
                THEN /\ r_state' = "AssertionError"
                     /\ call' = CtorCall(v, m, has_mask, mask, "AssertionError")
                     /\ r_mask' = mk
                     /\ r_starts' = st.starts
                     /\ r_stops' = st.stops
                     /\ UNCHANGED r_min
                ELSE /\ r_state' = "constructed"
                     /\ call' = CtorCall(v, m, has_mask, mask, "")
                     /\ r_mask' = mk
                     /\ r_starts' = st.starts
                     /\ r_stops' = st.stops
                     /\ r_min' = m

\* Rebinner.n_bins
n_bins == Len(r_starts)

\* "for low_bound, hi_bound in zip(self._starts, self._stops)":
\* rebinned_vector.append(np.sum(vector_a[low_bound:hi_bound]))
SumOverBins(vector, starts, stops) ==
    [i \in 1..Min(Len(starts), Len(stops)) |->
        SumSeq(Slice(vector, starts[i], stops[i]))]

\* assert abs(np.sum(rebinned_vector) / np.sum(vector_a[self._mask]) - 1) < 1e-4
\* (a zero denominator makes the quotient nan or inf, and the comparison false)
SumPreserved(rebinned_vector, vector, mask) ==
    LET s == SumSeq(rebinned_vector)
        t == SumSeq(Select(vector, mask))
    IN  /\ t # 0
        /\ Abs(s - t) * RelTolInv < Abs(t)

\* RebinVector, had a vector of another length than the mask been rebinned to
\* an empty array rather than refused
RebinVector_SkipsMissized(vector, mask, starts, stops) ==
    IF Len(vector) # Len(mask)
    THEN [raised |-> "", out |-> <<>>]
    ELSE LET rebinned_vector == SumOverBins(vector, starts, stops)
         IN  IF ~SumPreserved(rebinned_vector, vector, mask)
             THEN [raised |-> "AssertionError", out |-> <<>>]
             ELSE [raised |-> "", out |-> rebinned_vector]

\* the body of rebin's loop for one vector: what it raises ("" when nothing)
\* and the rebinned vector
RebinVector(vector, mask, starts, stops) ==
    IF Len(vector) # Len(mask)
    THEN [raised |-> "AssertionError", out |-> <<>>]
    ELSE LET rebinned_vector == SumOverBins(vector, starts, stops)
         IN  IF ~SumPreserved(rebinned_vector, vector, mask)
             THEN [raised |-> "AssertionError", out |-> <<>>]
             ELSE [raised |-> "", out |-> rebinned_vector]

\* Rebinner.rebin(*vectors): the first vector that raises ends the call
RECURSIVE RebinAll(_, _, _, _, _)
RebinAll(vectors, rebinned_vectors, mask, starts, stops) ==
    IF vectors = <<>>
    THEN [raised |-> "", result |-> rebinned_vectors]
    ELSE LET one == RebinVector(vectors[1], mask, starts, stops)
         IN  IF one.raised # ""
             THEN [raised |-> one.raised, result |-> <<>>]
             ELSE RebinAll(Tail(vectors), Append(rebinned_vectors, one.out),
                           mask, starts, stops)

Rebin(vectors) ==
    /\ r_state = "constructed"
    /\ LET r == RebinAll(vectors, <<>>, r_mask, r_starts, r_stops)
       IN  call' = [op |-> "rebin", vectors |-> vectors,
                    raised |-> r.raised, result |-> r.result]
    /\ UNCHANGED <<r_state, r_mask, r_starts, r_stops, r_min>>

\* NewStartAndStop, had it read the stop edge of the first element of the bin
NewStartAndStop_FirstElementStop(old_start, old_stop, mask, starts, stops) ==
    IF ~(Len(old_start) = Len(mask) /\ Len(old_stop) = Len(mask))
    THEN [raised |-> "AssertionError", result |-> <<>>]
    ELSE [raised |-> "",
          result |-> << [i \in 1..Len(starts) |-> PyAt(old_start, starts[i])],
                        [i \in 1..Len(starts) |-> PyAt(old_stop, starts[i])] >>]

\* Rebinner.get_new_start_and_stop(old_start, old_stop): what it raises and
\* the pair <<new_start, new_stop>>
NewStartAndStop(old_start, old_stop, mask, starts, stops) ==
    IF ~(Len(old_start) = Len(mask) /\ Len(old_stop) = Len(mask))
    THEN [raised |-> "AssertionError", result |-> <<>>]
    ELSE [raised |-> "",
          result |-> << [i \in 1..Len(starts) |-> PyAt(old_start, starts[i])],
                        [i \in 1..Len(starts) |-> PyAt(old_stop, stops[i] - 1)] >>]

GetNewStartAndStop(old_start, old_stop) ==
    /\ r_state = "constructed"
    /\ LET r == NewStartAndStop(old_start, old_stop, r_mask, r_starts, r_stops)
       IN  call' = [op |-> "get_new_start_and_stop",
                    old_start |-> old_start, old_stop |-> old_stop,
                    raised |-> r.raised, result |-> r.result]
    /\ UNCHANGED <<r_state, r_mask, r_starts, r_stops, r_min>>

\* a read of the n_bins property
GetNBins ==
    /\ r_state = "constructed"
    /\ call' = [op |-> "n_bins", raised |-> "", result |-> n_bins]
    /\ UNCHANGED <<r_state, r_mask, r_starts, r_stops, r_min>>

\* np.sqrt of a non-negative integer, exactly: the integer part of the root
\* and what the radicand exceeds its square by (0 for a perfect square)
Sqrt(x) ==
    LET root == CHOOSE r \in 0..x : r * r <= x /\ (r + 1) * (r + 1) > x
    IN  [root |-> root, rem |-> x - root * root]

\* vector ** 2, elementwise
Squares(vector) == [j \in 1..Len(vector) |-> vector[j] * vector[j]]

\* QuadratureOverBins, had the errors of a bin been added without squaring
QuadratureOverBins_AddsLinearly(vector, starts, stops) ==
    [i \in 1..Min(Len(starts), Len(stops)) |->
        [root |-> Abs(SumSeq(Slice(vector, starts[i], stops[i]))), rem |-> 0]]

\* "for low_bound, hi_bound in zip(self._starts, self._stops)":
\* rebinned_vector.append(np.sqrt(np.sum(vector[low_bound:hi_bound] ** 2)))
QuadratureOverBins(vector, starts, stops) ==
    [i \in 1..Min(Len(starts), Len(stops)) |->
        Sqrt(SumSeq(Squares(Slice(vector, starts[i], stops[i]))))]

\* the body of rebin_errors' loop for one vector
RebinErrorsVector(vector, mask, starts, stops) ==
    IF Len(vector) # Len(mask)
    THEN [raised |-> "AssertionError", out |-> <<>>]
    ELSE [raised |-> "", out |-> QuadratureOverBins(vector, starts, stops)]

\* Rebinner.rebin_errors(*vectors): the first vector that raises ends the call
RECURSIVE RebinErrorsAll(_, _, _, _, _)
RebinErrorsAll(vectors, rebinned_vectors, mask, starts, stops) ==
    IF vectors = <<>>
    THEN [raised |-> "", result |-> rebinned_vectors]
    ELSE LET one == RebinErrorsVector(vectors[1], mask, starts, stops)
         IN  IF one.raised # ""
             THEN [raised |-> one.raised, result |-> <<>>]
             ELSE RebinErrorsAll(Tail(vectors), Append(rebinned_vectors, one.out),
                                 mask, starts, stops)

RebinErrors(vectors) ==
    /\ r_state = "constructed"
    /\ LET r == RebinErrorsAll(vectors, <<>>, r_mask, r_starts, r_stops)
       IN  call' = [op |-> "rebin_errors", vectors |-> vectors,
                    raised |-> r.raised, result |-> r.result]
    /\ UNCHANGED <<r_state, r_mask, r_starts, r_stops, r_min>>

\* ----------------------------------------------------------------
\* The methods of a constructed Rebinner, called from several threads:
\* a call is a step that checks its arguments, one step for each bin that
\* zip(self._starts, self._stops) yields, and the step that returns.
\* ----------------------------------------------------------------
Threads == {"t1", "t2"}

Idle == [pc |-> "idle", op |-> "none", a |-> <<>>, b |-> <<>>, k |-> 0,
         acc |-> <<>>, acc2 |-> <<>>, raised |-> "", result |-> <<>>]

\* the entry of a method: the assertions on the lengths of its arguments,
\* np.zeros(len(self._starts)) of get_new_start_and_stop, the whole of n_bins
ThreadCall(t, op, a, b) ==
    /\ r_state = "constructed"
    /\ thr[t].pc \in {"idle", "done"}
    /\ thr' = [thr EXCEPT ![t] =
          IF op = "n_bins"
          THEN [Idle EXCEPT !.pc = "done", !.op = op, !.result = Len(r_starts)]
          ELSE IF Len(a) # Len(r_mask)
                  \/ (op = "get_new_start_and_stop" /\ Len(b) # Len(r_mask))
          THEN [Idle EXCEPT !.pc = "done", !.op = op, !.a = a, !.b = b,
                            !.raised = "AssertionError"]
          ELSE IF op = "get_new_start_and_stop"
          THEN [Idle EXCEPT !.pc = "loop", !.op = op, !.a = a, !.b = b,
                            !.acc = [j \in 1..Len(r_starts) |-> 0],
                            !.acc2 = [j \in 1..Len(r_starts) |-> 0]]
          ELSE [Idle EXCEPT !.pc = "loop", !.op = op, !.a = a, !.b = b]]
    /\ UNCHANGED <<r_state, r_mask, r_starts, r_stops, r_min, call>>
    /\ UNCHANGED <<binners, callers>>

\* what a call whose loop is over returns or raises
ThreadReturn(c, mask) ==
    IF c.op = "rebin"
    THEN IF ~SumPreserved(c.acc, c.a, mask)
         THEN [c EXCEPT !.pc = "done", !.raised = "AssertionError"]
         ELSE [c EXCEPT !.pc = "done", !.result = <<c.acc>>]
    ELSE IF c.op = "rebin_errors"
    THEN [c EXCEPT !.pc = "done", !.result = <<c.acc>>]
    ELSE [c EXCEPT !.pc = "done", !.result = <<c.acc, c.acc2>>]

\* the body of the loop for the bin (low_bound, hi_bound)
ThreadBin(c, low_bound, hi_bound) ==
    IF c.op = "rebin"
    THEN [c EXCEPT !.k = @ + 1,
                   !.acc = Append(@, SumSeq(Slice(c.a, low_bound, hi_bound)))]
    ELSE IF c.op = "rebin_errors"
    THEN [c EXCEPT !.k = @ + 1,
                   !.acc = Append(@, Sqrt(SumSeq(Squares(Slice(c.a, low_bound,
                                                               hi_bound)))))]
    ELSE [c EXCEPT !.k = @ + 1,
                   !.acc = [@ EXCEPT ![c.k + 1] = PyAt(c.a, low_bound)],
                   !.acc2 = [@ EXCEPT ![c.k + 1] = PyAt(c.b, hi_bound - 1)]]

\* ThreadStep, had the loop consumed the bins it iterates over
\* (low_bound = self._starts.pop(0), hi_bound = self._stops.pop(0))
ThreadStep_PopsBins(t) ==
    /\ thr[t].pc = "loop"
    /\ IF r_starts # <<>> /\ r_stops # <<>>
       THEN /\ thr' = [thr EXCEPT ![t] = ThreadBin(thr[t], r_starts[1], r_stops[1])]
            /\ r_starts' = Tail(r_starts)
            /\ r_stops' = Tail(r_stops)
       ELSE /\ thr' = [thr EXCEPT ![t] = ThreadReturn(thr[t], r_mask)]
            /\ UNCHANGED <<r_starts, r_stops>>
    /\ UNCHANGED <<r_state, r_mask, r_min, call, binners, callers>>

\* one turn of "for low_bound, hi_bound in zip(self._starts, self._stops)":
\* the next bin, or the end of the loop and the return
ThreadStep(t) ==
    /\ thr[t].pc = "loop"
    /\ IF thr[t].k < Min(Len(r_starts), Len(r_stops))
       THEN thr' = [thr EXCEPT ![t] =
                ThreadBin(thr[t], r_starts[thr[t].k + 1], r_stops[thr[t].k + 1])]
       ELSE thr' = [thr EXCEPT ![t] = ThreadReturn(thr[t], r_mask)]
    /\ UNCHANGED <<r_state, r_mask, r_starts, r_stops, r_min, call>>
    /\ UNCHANGED <<binners, callers>>

Binners == {"b1", "b2"}

IdleCaller == [pc |-> "idle", op |-> "none", on |-> "none", min_counts |-> 0,
               sigma_level |-> 0, dt |-> 0, i |-> 0, total_counts |-> 0,
               current_start |-> 0, sigmas |-> <<>>]

InitThreads ==
    /\ thr = [t \in Threads |-> Idle]
    /\ binners = [b \in Binners |-> [starts |-> <<>>, stops |-> <<>>]]
    /\ callers = [t \in Threads |-> IdleCaller]

InitRebinner ==
    /\ r_state = "new"
    /\ r_mask = <<>>
    /\ r_starts = <<>>
    /\ r_stops = <<>>
    /\ r_min = 0
    /\ call = NoCall

\* the inputs of the model: reference vectors, thresholds, masks (of the
\* right length or one short), companion vectors and boundary sequences
\* (evenly spaced edges from 0; those of width 1 are the identity edges)
Lengths(n) == {k \in {n - 1, n} : k >= 0}

EdgeSeqs(n) == {[k \in 1..n |-> (k - 1) * w] : w \in 0..MaxW}

DoConstruct ==
    \E n \in 0..MaxN, m \in 1..MaxM :
        \E v \in Vectors(n, MaxVal) :
            \/ Construct(v, m, FALSE, <<>>)
            \/ \E k \in Lengths(n) : \E mask \in [1..k -> BOOLEAN] :
                   Construct(v, m, TRUE, mask)

DoRebin ==
    \/ Rebin(<<>>)
    \/ \E k \in Lengths(Len(r_mask)) : \E x \in Vectors(k, MaxX) :
           Rebin(<<x>>)

\* error vectors: entries of either sign (they are squared)
ErrorVectors(n) == [1..n -> {0 - MaxX, 0, MaxX}]

DoRebinErrors ==
    \/ RebinErrors(<<>>)
    \/ \E k \in Lengths(Len(r_mask)) : \E e \in ErrorVectors(k) :
           RebinErrors(<<e>>)

\* calls with several vectors: vectors of ones of the length of the mask and
\* one element short, in every order
SeveralVectors(n) ==
    LET Ones(k) == [j \in 1..k |-> 1]
        sized == {Ones(k) : k \in Lengths(n)}
    IN  UNION {[1..len -> sized] : len \in 2..3}

DoRebinSeveral ==
    \E vectors \in SeveralVectors(Len(r_mask)) :
        \/ Rebin(vectors)
        \/ RebinErrors(vectors)

DoGetNewStartAndStop ==
    \E k1 \in Lengths(Len(r_mask)), k2 \in Lengths(Len(r_mask)) :
        \E old_start \in EdgeSeqs(k1), old_stop \in EdgeSeqs(k2) :
            GetNewStartAndStop(old_start, old_stop)


\* ================================================================
\* TemporalBinner
\* ================================================================
VARIABLES
    arrival_times,  \* self._arrival_times
    t_set,          \* whether self._starts and self._stops exist yet
    t_starts,       \* self._starts
    t_stops,        \* self._stops
    total_counts,   \* the locals of the bin_by_significance call in progress
    current_start,
    scan_i,         \* the loop index i
    progress,       \* the number of p.increase() calls of the call in progress
    evals,          \* per arrival time scanned by the call: whether the
                    \* significance was evaluated there, and its value
    tcall           \* the last call on the instance, its arguments and its
                    \* state: "running", "returned" or the exception raised

tvars == <<arrival_times, t_set, t_starts, t_stops, total_counts, current_start,
           scan_i, progress, evals, tcall>>

vars == <<rvars, cvars, tvars>>

\* had_bins: whether bins of an earlier call were stored when the call began
NoTCall == [op |-> "none", sigma_level |-> 0, min_counts |-> 0, dt |-> 0,
            had_bins |-> FALSE, state |-> "returned"]

HadBins == t_set /\ (t_starts # <<>> \/ t_stops # <<>>)

RECURSIVE IsSorted(_)
IsSorted(s) == Len(s) <= 1 \/ (s[1] <= s[2] /\ IsSorted(Tail(s)))

\* the arrival times the model draws from: sorted, possibly empty
ArrivalTimes ==
    {s \in UNION {[1..n -> 0..MaxTime] : n \in 0..MaxLen} : IsSorted(s)}

\* ResetBins, had the call kept the lists of the call before it
ResetBins_Keeps(old) == old

\* "self._starts = []" and "self._stops = []" on entry
ResetBins(old) == <<>>

\* Evaluate, had it not restarted the count when it closes a bin
Evaluate_KeepsCount(sc, time, sigma, sigma_level) ==
    IF sigma >= sigma_level
    THEN [sc EXCEPT !.stops = Append(@, time),
                    !.starts = Append(@, sc.current_start),
                    !.current_start = time]
    ELSE sc

\* "if sigma >= sigma_level:" and its body, on the bins and the two locals
Evaluate(sc, time, sigma, sigma_level) ==
    IF sigma >= sigma_level
    THEN [sc EXCEPT !.stops = Append(@, time),
                    !.starts = Append(@, sc.current_start),
                    !.current_start = time,
                    !.total_counts = 0]
    ELSE sc

\* AfterScan, had it closed the window still open at the last arrival time
\* (as Rebinner closes its trailing bin)
AfterScan_ClosesTrailing(sc, times) ==
    IF sc.total_counts > 0
    THEN [sc EXCEPT !.stops = Append(@, PyAt(times, 0 - 1)),
                    !.starts = Append(@, sc.current_start)]
    ELSE sc

\* what follows the loop of bin_by_significance: nothing, the window still
\* open is not closed
AfterScan(sc, times) == sc

\* TemporalBinner.bin_by_significance, up to the loop
BinBySignificance(use_error_getter, sigma_level, min_counts) ==
    /\ tcall.state # "running"
    /\ t_set' = TRUE
    /\ t_starts' = ResetBins(t_starts)
    /\ t_stops' = ResetBins(t_stops)
    /\ total_counts' = 0
    /\ progress' = 0
    /\ evals' = <<>>
    /\ scan_i' = 0
    /\ IF arrival_times = <<>>
       THEN \* self._arrival_times[0] raises
            /\ tcall' = [op |-> "bin_by_significance", sigma_level |-> sigma_level,
                         min_counts |-> min_counts, dt |-> 0, had_bins |-> HadBins,
                         state |-> "IndexError"]
            /\ current_start' = 0
       ELSE /\ tcall' = [op |-> "bin_by_significance", sigma_level |-> sigma_level,
                         min_counts |-> min_counts, dt |-> 0, had_bins |-> HadBins,
                         state |-> "running"]
            /\ current_start' = At(arrival_times, 0)
    /\ UNCHANGED <<arrival_times, rvars, cvars>>

\* the state of the call once the element at index scan_i has been dealt with:
\* the next iteration, or the end of the loop and the return
ScanAdvance(sc) ==
    LET last == (scan_i + 1 = Len(arrival_times))
        fin == IF last THEN AfterScan(sc, arrival_times) ELSE sc
    IN  /\ t_starts' = fin.starts
        /\ t_stops' = fin.stops
        /\ current_start' = fin.current_start
        /\ total_counts' = fin.total_counts
        /\ scan_i' = scan_i + 1
        /\ tcall' = [tcall EXCEPT !.state = IF last THEN "returned" ELSE "running"]

ScanState(counts) ==
    [starts |-> t_starts, stops |-> t_stops, current_start |-> current_start,
     total_counts |-> counts]

\* one iteration of the loop that takes "continue": p.increase() is skipped
ScanSkip ==
    /\ tcall.state = "running"
    /\ total_counts + 1 < tcall.min_counts
    /\ ScanAdvance(ScanState(total_counts + 1))
    /\ evals' = Append(evals, [evaluated |-> FALSE, sigma |-> 0])
    /\ UNCHANGED <<arrival_times, t_set, progress, rvars, cvars>>

\* one iteration of the loop that evaluates the significance of the window
\* (current_start, time): with either evaluator it is the value `sigma`
ScanEvaluate(sigma) ==
    /\ tcall.state = "running"
    /\ ~(total_counts + 1 < tcall.min_counts)
    /\ ScanAdvance(Evaluate(ScanState(total_counts + 1), At(arrival_times, scan_i),
                            sigma, tcall.sigma_level))
    /\ evals' = Append(evals, [evaluated |-> TRUE, sigma |-> sigma])
    /\ progress' = progress + 1
    /\ UNCHANGED <<arrival_times, t_set, rvars, cvars>>

\* one iteration of the loop in which a getter or the evaluator raises
ScanRaise ==
    /\ tcall.state = "running"
    /\ ~(total_counts + 1 < tcall.min_counts)
    /\ total_counts' = total_counts + 1
    /\ tcall' = [tcall EXCEPT !.state = "raised"]
    /\ UNCHANGED <<arrival_times, t_set, t_starts, t_stops, current_start,
                   scan_i, progress, evals, rvars, cvars>>

\* Arange, had it rounded the number of steps down
Arange_RoundsDown(start, stop, step) ==
    LET span == stop - start
        len == IF step > 0 /\ span > 0 THEN span \div step
               ELSE IF step < 0 /\ span < 0 THEN (-span) \div (-step)
               ELSE 0
    IN  [k \in 1..len |-> start + (k - 1) * step]

\* np.arange(start, stop, step) on integers
Arange(start, stop, step) ==
    LET span == stop - start
        len == IF step > 0 /\ span > 0 THEN (span + step - 1) \div step
               ELSE IF step < 0 /\ span < 0 THEN (-span + (-step) - 1) \div (-step)
               ELSE 0
    IN  [k \in 1..len |-> start + (k - 1) * step]

\* TemporalBinner.bin_by_constanst(dt)
BinByConstanst(dt) ==
    /\ tcall.state # "running"
    /\ IF arrival_times = <<>>
       THEN /\ tcall' = [op |-> "bin_by_constanst", sigma_level |-> 0,
                         min_counts |-> 0, dt |-> dt, had_bins |-> HadBins,
                         state |-> "IndexError"]
            /\ UNCHANGED <<t_set, t_starts, t_stops>>
       ELSE IF dt = 0
       THEN /\ tcall' = [op |-> "bin_by_constanst", sigma_level |-> 0,
                         min_counts |-> 0, dt |-> dt, had_bins |-> HadBins,
                         state |-> "ZeroDivisionError"]
            /\ UNCHANGED <<t_set, t_starts, t_stops>>
       ELSE LET tmp == Arange(PyAt(arrival_times, 0), PyAt(arrival_times, 0 - 1), dt)
            IN  /\ t_set' = TRUE
                /\ t_starts' = tmp
                /\ t_stops' = [k \in 1..Len(tmp) |-> tmp[k] + dt]
                /\ tcall' = [op |-> "bin_by_constanst", sigma_level |-> 0,
                             min_counts |-> 0, dt |-> dt, had_bins |-> HadBins,
                             state |-> "returned"]
    \* no bin_by_significance call is in progress: its locals are gone
    /\ total_counts' = 0
    /\ current_start' = 0
    /\ scan_i' = 0
    /\ progress' = 0
    /\ evals' = <<>>
    /\ UNCHANGED <<arrival_times, rvars, cvars>>

\* ----------------------------------------------------------------
\* bin_by_significance and bin_by_constanst called from several threads, on
\* the same instance or on separate ones: a step is one statement that reads
\* or writes self._starts or self._stops, with the statements on locals that
\* come before it
\* ----------------------------------------------------------------

\* the instance call c writes to, had _starts and _stops been attributes of
\* the class, shared by all instances
StoreOf_SharedByInstances(c) == "b1"

\* the instance whose _starts and _stops call c writes: self
StoreOf(c) == c.on

\* "self._starts = []" of bin_by_significance
CallSignificance(t, b, sigma_level, min_counts) ==
    /\ callers[t].pc = "idle"
    /\ arrival_times # <<>>
    /\ LET c == [IdleCaller EXCEPT !.pc = "reset", !.op = "bin_by_significance",
                                   !.on = b, !.sigma_level = sigma_level,
                                   !.min_counts = min_counts]
       IN  /\ callers' = [callers EXCEPT ![t] = c]
           /\ binners' = [binners EXCEPT ![StoreOf(c)].starts = <<>>]
    /\ UNCHANGED <<arrival_times, tvars, rvars, thr>>

\* "self._stops = []", then the two locals are set
CallerResetStops(t) ==
    /\ callers[t].pc = "reset"
    /\ binners' = [binners EXCEPT ![StoreOf(callers[t])].stops = <<>>]
    /\ callers' = [callers EXCEPT ![t].pc = "loop",
                                  ![t].current_start = At(arrival_times, 0)]
    /\ UNCHANGED <<arrival_times, tvars, rvars, thr>>

\* the call after the iteration at index c.i
CallerNext(c) ==
    [c EXCEPT !.i = @ + 1,
              !.pc = IF c.i + 1 = Len(arrival_times) THEN "done" ELSE "loop"]

\* one iteration up to "self._stops.append(time)": the count, "continue",
\* the significance `sigma` of the window and the test
CallerIterate(t, sigma) ==
    /\ callers[t].pc = "loop"
    /\ LET c == [callers[t] EXCEPT !.total_counts = @ + 1]
           time == At(arrival_times, c.i)
       IN  IF c.total_counts < c.min_counts
           THEN /\ callers' = [callers EXCEPT ![t] =
                       CallerNext([c EXCEPT !.sigmas = Append(@, 0)])]
                /\ UNCHANGED binners
           ELSE IF sigma >= c.sigma_level
           THEN /\ callers' = [callers EXCEPT ![t] =
                       [c EXCEPT !.pc = "closing", !.sigmas = Append(@, sigma)]]
                /\ binners' = [binners EXCEPT ![StoreOf(c)].stops = Append(@, time)]
           ELSE /\ callers' = [callers EXCEPT ![t] =
                       CallerNext([c EXCEPT !.sigmas = Append(@, sigma)])]
                /\ UNCHANGED binners
    /\ UNCHANGED <<arrival_times, tvars, rvars, thr>>

\* "self._starts.append(current_start)" and the rest of the iteration
CallerClose(t) ==
    /\ callers[t].pc = "closing"
    /\ LET c == callers[t]
       IN  /\ binners' = [binners EXCEPT ![StoreOf(c)].starts =
                                             Append(@, c.current_start)]
           /\ callers' = [callers EXCEPT ![t] =
                  CallerNext([c EXCEPT !.current_start = At(arrival_times, c.i),
                                       !.total_counts = 0])]
    /\ UNCHANGED <<arrival_times, tvars, rvars, thr>>

\* tmp of bin_by_constanst
ConstantEdges(dt) ==
    Arange(PyAt(arrival_times, 0), PyAt(arrival_times, 0 - 1), dt)

\* "tmp = np.arange(...)" and "self._starts = tmp" of bin_by_constanst
CallConstanst(t, b, dt) ==
    /\ callers[t].pc = "idle"
    /\ arrival_times # <<>>
    /\ dt # 0
    /\ LET c == [IdleCaller EXCEPT !.pc = "stops", !.op = "bin_by_constanst",
                                   !.on = b, !.dt = dt]
       IN  /\ callers' = [callers EXCEPT ![t] = c]
           /\ binners' = [binners EXCEPT ![StoreOf(c)].starts = ConstantEdges(dt)]
    /\ UNCHANGED <<arrival_times, tvars, rvars, thr>>

\* "self._stops = tmp + dt"
CallerSetStops(t) ==
    /\ callers[t].pc = "stops"
    /\ LET c == callers[t]
           tmp == ConstantEdges(c.dt)
       IN  /\ binners' = [binners EXCEPT ![StoreOf(c)].stops =
                                             [k \in 1..Len(tmp) |-> tmp[k] + c.dt]]
           /\ callers' = [callers EXCEPT ![t].pc = "done"]
    /\ UNCHANGED <<arrival_times, tvars, rvars, thr>>

\* the whole loop of bin_by_significance run without interruption from index
\* i on, with sigmas[i] the significance evaluated at index i
RECURSIVE SequentialScan(_, _, _, _, _, _)
SequentialScan(times, i, sc, min_counts, sigma_level, sigmas) ==
    IF i = Len(times)
    THEN AfterScan(sc, times)
    ELSE LET counted == [sc EXCEPT !.total_counts = @ + 1]
             after == IF counted.total_counts < min_counts
                      THEN counted
                      ELSE Evaluate(counted, At(times, i), At(sigmas, i), sigma_level)
         IN  SequentialScan(times, i + 1, after, min_counts, sigma_level, sigmas)

\* the starts and stops the call c stores when no other call runs
SequentialBins(c) ==
    IF c.op = "bin_by_constanst"
    THEN [starts |-> ConstantEdges(c.dt),
          stops |-> [k \in 1..Len(ConstantEdges(c.dt)) |-> ConstantEdges(c.dt)[k] + c.dt]]
    ELSE LET fin == SequentialScan(arrival_times, 0,
                        [starts |-> ResetBins(<<>>), stops |-> ResetBins(<<>>),
                         current_start |-> At(arrival_times, 0), total_counts |-> 0],
                        c.min_counts, c.sigma_level, c.sigmas)
         IN  [starts |-> fin.starts, stops |-> fin.stops]

\* the bins property: the stored lists themselves, not copies
bins == <<t_starts, t_stops>>

\* bin_by_bayesian_blocks, had it dropped the bins before it raises
BinByBayesianBlocks_DropsBins(p0) ==
    /\ tcall.state # "running"
    /\ tcall' = [op |-> "bin_by_bayesian_blocks", sigma_level |-> 0,
                 min_counts |-> 0, dt |-> 0, had_bins |-> HadBins,
                 state |-> "NotImplementedError"]
    /\ t_starts' = <<>>
    /\ t_stops' = <<>>
    /\ total_counts' = 0
    /\ current_start' = 0
    /\ scan_i' = 0
    /\ progress' = 0
    /\ evals' = <<>>
    /\ UNCHANGED <<arrival_times, t_set, rvars, cvars>>

\* TemporalBinner.bin_by_bayesian_blocks(p0): the raise is its whole body
BinByBayesianBlocks(p0) ==
    /\ tcall.state # "running"
    /\ tcall' = [op |-> "bin_by_bayesian_blocks", sigma_level |-> 0,
                 min_counts |-> 0, dt |-> 0, had_bins |-> HadBins,
                 state |-> "NotImplementedError"]
    \* no bin_by_significance call is in progress: its locals are gone
    /\ total_counts' = 0
    /\ current_start' = 0
    /\ scan_i' = 0
    /\ progress' = 0
    /\ evals' = <<>>
    /\ UNCHANGED <<arrival_times, t_set, t_starts, t_stops, rvars, cvars>>

InitTemporal ==
    /\ t_set = FALSE
    /\ t_starts = <<>>
    /\ t_stops = <<>>
    /\ total_counts = 0
    /\ current_start = 0
    /\ scan_i = 0
    /\ progress = 0
    /\ evals = <<>>
    /\ tcall = NoTCall

DoBinBySignificance ==
    \E use_error_getter \in BOOLEAN, sigma_level \in 1..MaxSigma,
       min_counts \in 1..MaxMinCounts :
        BinBySignificance(use_error_getter, sigma_level, min_counts)

DoScanEvaluate == \E sigma \in 0..MaxSigma : ScanEvaluate(sigma)

DoBinByConstanst == \E dt \in (0 - 1)..MaxDt : BinByConstanst(dt)

\* ================================================================
\* Specifications: a program that uses a Rebinner, one that uses a
\* TemporalBinner
\* ================================================================
InitR == InitRebinner /\ InitThreads /\ InitTemporal /\ arrival_times = <<>>

NextR ==
    \/ DoConstruct /\ UNCHANGED <<tvars, cvars>>
    \/ DoRebin /\ UNCHANGED <<tvars, cvars>>
    \/ DoGetNewStartAndStop /\ UNCHANGED <<tvars, cvars>>
    \/ GetNBins /\ UNCHANGED <<tvars, cvars>>

SpecR == InitR /\ [][NextR]_vars

\* the arguments of the calls made from threads: a vector of distinct powers
\* of two (the sum over a bin tells which elements it holds), a vector of
\* zeros and a vector that is one element short
Inputs(n) ==
    {[j \in 1..n |-> 2 ^ (j - 1)], [j \in 1..n |-> 0]}
        \cup {[j \in 1..k |-> 1] : k \in {n - 1} \cap (0..n)}

\* the state after a construction that succeeded
InitC ==
    /\ \E n \in 1..MaxN, m \in 1..MaxM :
          \E v \in Vectors(n, MaxVal), mask \in [1..n -> BOOLEAN] :
              /\ Total(v, mask) >= m
              /\ r_state = "constructed"
              /\ r_mask = mask
              /\ r_starts = BuildBins(v, m, mask).starts
              /\ r_stops = BuildBins(v, m, mask).stops
              /\ r_min = m
    /\ call = NoCall
    /\ InitThreads
    /\ InitTemporal
    /\ arrival_times = <<>>

DoThreadCall ==
    \E t \in Threads :
        \/ ThreadCall(t, "n_bins", <<>>, <<>>)
        \/ \E a \in Inputs(Len(r_mask)) :
               \/ ThreadCall(t, "rebin", a, <<>>)
               \/ ThreadCall(t, "rebin_errors", a, <<>>)
               \/ ThreadCall(t, "get_new_start_and_stop", a, a)

DoThreadStep == \E t \in Threads : ThreadStep(t)

NextC ==
    \/ DoThreadCall /\ UNCHANGED tvars
    \/ DoThreadStep /\ UNCHANGED tvars

SpecC == InitC /\ [][NextC]_vars

\* construction, then rebin_errors, the calls with several vectors and
\* get_new_start_and_stop
NextE ==
    \/ DoConstruct /\ UNCHANGED <<tvars, cvars>>
    \/ DoRebinErrors /\ UNCHANGED <<tvars, cvars>>
    \/ DoRebinSeveral /\ UNCHANGED <<tvars, cvars>>
    \/ DoGetNewStartAndStop /\ UNCHANGED <<tvars, cvars>>

SpecE == InitR /\ [][NextE]_vars

\* arrival times of the instances that threads share: 0, 1, 2, ...
InitK ==
    /\ InitRebinner
    /\ InitThreads
    /\ InitTemporal
    /\ arrival_times \in {[k \in 1..n |-> k - 1] : n \in 1..MaxArrivals}

DoCallSignificance ==
    \E t \in Threads, b \in Binners, min_counts \in 1..MaxMinCounts :
        CallSignificance(t, b, 1, min_counts)

DoCallerIterate == \E t \in Threads, sigma \in 0..1 : CallerIterate(t, sigma)

DoCallConstanst ==
    \E t \in Threads, b \in Binners, dt \in 1..MaxDt : CallConstanst(t, b, dt)

NextK ==
    \/ DoCallSignificance
    \/ \E t \in Threads : CallerResetStops(t)
    \/ DoCallerIterate
    \/ \E t \in Threads : CallerClose(t)
    \/ DoCallConstanst
    \/ \E t \in Threads : CallerSetStops(t)

SpecK == InitK /\ [][NextK]_vars

InitT == InitRebinner /\ InitThreads /\ InitTemporal /\ arrival_times \in ArrivalTimes

DoBinByBayesianBlocks == \E p0 \in 0..MaxP0 : BinByBayesianBlocks(p0)

NextT ==
    \/ DoBinBySignificance
    \/ ScanSkip
    \/ DoScanEvaluate
    \/ ScanRaise
    \/ DoBinByConstanst
    \/ DoBinByBayesianBlocks

SpecT == InitT /\ [][NextT]_vars

\* ================================================================
\* Properties of the Rebinner
\* ================================================================
Bins == 1..Len(r_starts)

\* the indices of bin i, [starts[i], stops[i])
BinIndices(i) == {j \in 0..(Len(r_mask) - 1) : r_starts[i] <= j /\ j < r_stops[i]}

\* the state right after a construction that succeeded
Constructed == r_state = "constructed" /\ call.op = "__init__"

\* the total of the reference vector over bin i (right after construction)
BinTotal(i) == SumSeq(Slice(call.v, r_starts[i], r_stops[i]))

MaskedIn == {j \in 0..(Len(r_mask) - 1) : At(r_mask, j)}

\* C1: after a successful construction starts, stops and n_bins agree in
\* length, the bins are pairwise disjoint and in increasing order, and their
\* union is exactly the set of the indices the mask includes (the mask given,
\* or all indices when none was given).
C1_BinsPartitionMaskedIndices ==
    Constructed =>
        /\ Len(r_starts) = Len(r_stops)
        /\ Len(r_starts) = n_bins
        /\ Len(r_mask) = Len(call.v)
        /\ r_mask = (IF call.has_mask THEN call.mask ELSE [k \in 1..Len(call.v) |-> TRUE])
        /\ \A i \in Bins : i < Len(r_starts) => r_stops[i] <= r_starts[i + 1]
        /\ \A i \in Bins, k \in Bins : i # k => BinIndices(i) \cap BinIndices(k) = {}
        /\ UNION {BinIndices(i) : i \in Bins} = MaskedIn

\* a construction with a gap in the mask between two bins
C1_Witness ==
    /\ Constructed
    /\ Len(r_starts) >= 2
    /\ \E j \in 0..(Len(r_mask) - 1) :
           ~At(r_mask, j) /\ r_stops[1] <= j /\ j < r_starts[2]

\* C2 as stated: every bin but the last has a reference total of at least
\* min_value_per_bin, whatever the mask.
C2_AllButLastReachThreshold ==
    Constructed =>
        \A i \in Bins : i < Len(r_starts) => BinTotal(i) >= call.m

\* C2 (amended): every bin that is not the last one and that is not followed
\* directly by a masked-out element has a reference total of at least
\* min_value_per_bin.
C2_BinsNotClosedByMaskReachThreshold ==
    Constructed =>
        \A i \in Bins :
            (i < Len(r_starts) /\ At(r_mask, r_stops[i])) => BinTotal(i) >= call.m

\* under a mask that excludes an element, a bin that is not the last and is
\* followed directly by an included element
C2_Witness ==
    /\ Constructed
    /\ \E j \in 0..(Len(r_mask) - 1) : ~At(r_mask, j)
    /\ \E i \in Bins : i < Len(r_starts) /\ At(r_mask, r_stops[i])
                          /\ BinTotal(i) >= call.m

MaskSized == ~call.has_mask \/ Len(call.mask) = Len(call.v)

\* C3 as stated: rebin of a companion vector of the right length with
\* non-negative entries raises nothing, and the rebinned values add up to
\* the sum of the vector over the included positions.
C3_RebinCompletesAndPreservesSum ==
    (/\ call.op = "rebin"
     /\ \A k \in 1..Len(call.vectors) :
            /\ Len(call.vectors[k]) = Len(r_mask)
            /\ \A j \in 1..Len(call.vectors[k]) : call.vectors[k][j] >= 0)
    => /\ call.raised = ""
       /\ Len(call.result) = Len(call.vectors)
       /\ \A k \in 1..Len(call.vectors) :
              SumSeq(call.result[k]) = SumSeq(Select(call.vectors[k], r_mask))

\* C4: with a mask of the right length or none, construction raises
\* NotEnoughData exactly when the total of the whole reference vector, masked
\* elements included, is below min_value_per_bin; then nothing of an instance
\* exists, and otherwise the construction succeeds.
C4_NotEnoughDataIffTotalBelowMin ==
    (call.op = "__init__" /\ MaskSized) =>
        /\ (call.raised = "NotEnoughData") <=> (SumSeq(call.v) < call.m)
        /\ (call.raised # "NotEnoughData") <=> (call.raised = "")
        /\ (call.raised = "NotEnoughData") <=> (r_state = "NotEnoughData")
        /\ (call.raised = "") <=> (r_state = "constructed")
        /\ r_state = "NotEnoughData" =>
               r_mask = <<>> /\ r_starts = <<>> /\ r_stops = <<>>

\* a construction that succeeds although the included elements alone stay
\* below min_value_per_bin
C4_Witness ==
    /\ Constructed
    /\ call.has_mask
    /\ SumSeq(Select(call.v, call.mask)) < call.m

IdentityEdges(n) == [k \in 1..n |-> k - 1]

\* C5: get_new_start_and_stop on boundary sequences of length N returns two
\* sequences of length n_bins, new_start[i] = old_start[starts[i]] and
\* new_stop[i] = old_stop[stops[i] - 1], where stops[i] - 1 is an included
\* index of bin i; on identity edges the result is starts and stops - 1.
C5_NewEdgesAreFirstStartAndLastStop ==
    (/\ call.op = "get_new_start_and_stop"
     /\ Len(call.old_start) = Len(r_mask)
     /\ Len(call.old_stop) = Len(r_mask))
    => /\ call.raised = ""
       /\ Len(call.result) = 2
       /\ Len(call.result[1]) = n_bins
       /\ Len(call.result[2]) = n_bins
       /\ \A i \in Bins :
              /\ r_stops[i] - 1 \in BinIndices(i)
              /\ At(r_mask, r_stops[i] - 1)
              /\ call.result[1][i] = At(call.old_start, r_starts[i])
              /\ call.result[2][i] = At(call.old_stop, r_stops[i] - 1)
       /\ (/\ call.old_start = IdentityEdges(Len(r_mask))
           /\ call.old_stop = IdentityEdges(Len(r_mask)))
          => /\ call.result[1] = r_starts
             /\ call.result[2] = [i \in Bins |-> r_stops[i] - 1]

\* identity edges remapped onto bins of which one holds several elements
C5_Witness ==
    /\ call.op = "get_new_start_and_stop"
    /\ call.raised = ""
    /\ call.old_start = IdentityEdges(Len(r_mask))
    /\ call.old_stop = IdentityEdges(Len(r_mask))
    /\ Len(r_starts) >= 2
    /\ \E i \in Bins : r_stops[i] - r_starts[i] >= 2

\* ================================================================
\* Properties of the TemporalBinner
\* ================================================================
SigCall == tcall.op = "bin_by_significance"

\* the positions (1-based) of the arrival times at which the significance
\* was evaluated and reached sigma_level
Passes == {k \in 1..Len(evals) : evals[k].evaluated /\ evals[k].sigma >= tcall.sigma_level}

MaxOf(S) == CHOOSE x \in S : \A y \in S : y <= x

\* the last position before k at which a bin was due, 0 when there is none
PrevPass(k) == MaxOf({0} \cup {j \in Passes : j < k})

LastPass == PrevPass(Len(evals) + 1)

\* C6: scanning the arrival times in order, the significance is evaluated at
\* an arrival time exactly when the arrivals counted since the previous close
\* (or the start) number at least min_counts, and a bin is closed there exactly
\* when it also reaches sigma_level; the bin is (current_start, t), the count
\* restarts at 0 and the next window starts at t: starts[0] is the first
\* arrival time and starts[k+1] = stops[k].
C6_BinClosedWhenCountAndSignificanceReached ==
    (SigCall /\ tcall.state \in {"running", "returned"}) =>
        /\ Len(evals) = scan_i
        /\ \A k \in 1..Len(evals) :
              evals[k].evaluated <=> (k - PrevPass(k) >= tcall.min_counts)
        /\ Len(t_stops) = Cardinality(Passes)
        /\ Len(t_starts) = Cardinality(Passes)
        /\ \A k \in Passes :
              LET n == Cardinality({j \in Passes : j <= k})
              IN  /\ t_stops[n] = arrival_times[k]
                  /\ t_starts[n] = IF PrevPass(k) = 0 THEN arrival_times[1]
                                   ELSE arrival_times[PrevPass(k)]
        /\ \A n \in 1..Len(t_starts) :
              /\ n = 1 => t_starts[n] = At(arrival_times, 0)
              /\ n < Len(t_starts) => t_starts[n + 1] = t_stops[n]
        /\ total_counts = Len(evals) - LastPass
        /\ current_start = IF LastPass = 0 THEN At(arrival_times, 0)
                           ELSE arrival_times[LastPass]

\* a scan with min_counts = 2 that closed two bins, each after an arrival
\* that was only counted
C6_Witness ==
    /\ SigCall
    /\ tcall.state = "returned"
    /\ tcall.min_counts >= 2
    /\ Len(t_starts) >= 2
    /\ \E k \in 1..Len(evals) : ~evals[k].evaluated

\* C7: no bin is emitted at the end of the scan for a trailing remainder:
\* when the call returns there are as many bins as significance tests that
\* passed, every stop is the arrival time of one of them, no bin reaches
\* beyond the last of them, and there is no bin at all if none passed.
C7_NoTrailingBin ==
    (SigCall /\ tcall.state = "returned") =>
        /\ Len(t_stops) = Cardinality(Passes)
        /\ Len(t_starts) = Len(t_stops)
        /\ \A n \in 1..Len(t_stops) :
              /\ \E k \in Passes : t_stops[n] = arrival_times[k]
              /\ t_stops[n] <= arrival_times[LastPass]
        /\ Passes = {} => (t_starts = <<>> /\ t_stops = <<>>)

\* a scan that returned with a bin closed and later arrivals left in no bin
C7_Witness ==
    /\ SigCall
    /\ tcall.state = "returned"
    /\ Passes # {}
    /\ LastPass < Len(arrival_times)
    /\ arrival_times[Len(arrival_times)] > t_stops[Len(t_stops)]

ConstCall == tcall.op = "bin_by_constanst"

\* C8: bin_by_constanst with dt > 0 on arrival times that are not empty stores
\* starts = first, first + dt, ..., exactly the values below the last arrival
\* time, and stops[i] = starts[i] + dt with no clamping of the last stop; on
\* [0, 1, 5, 9] with dt = 2 the starts are arange(0, 9, 2) = [0, 2, 4, 6, 8].
C8_ConstantWidthBins ==
    (ConstCall /\ tcall.dt > 0 /\ arrival_times # <<>>) =>
        LET first == arrival_times[1]
            last == arrival_times[Len(arrival_times)]
        IN  /\ tcall.state = "returned"
            /\ \A k \in 1..Len(t_starts) :
                  /\ t_starts[k] = first + (k - 1) * tcall.dt
                  /\ t_starts[k] < last
            /\ first + Len(t_starts) * tcall.dt >= last
            /\ Len(t_stops) = Len(t_starts)
            /\ \A k \in 1..Len(t_starts) : t_stops[k] = t_starts[k] + tcall.dt
            /\ Arange(0, 9, 2) = <<0, 2, 4, 6, 8>>

\* bins of constant width of which the last one stops after the last
\* arrival time
C8_Witness ==
    /\ ConstCall
    /\ tcall.state = "returned"
    /\ tcall.dt > 0
    /\ Len(t_starts) >= 2
    /\ t_stops[Len(t_stops)] > arrival_times[Len(arrival_times)]

\* C9 as stated: when a bin_by_significance call returns, the progress
\* reporter has been notified once for each arrival time, whatever min_counts.
C9_ProgressOncePerArrival ==
    (SigCall /\ tcall.state = "returned") => progress = Len(arrival_times)

\* C10: when a binning call has returned, the stored starts and stops have
\* equal length and are the result of that call alone: the windows of its own
\* passed tests for bin_by_significance, the steps from the first arrival time
\* for bin_by_constanst; no bin stored by an earlier call is left.
C10_StoredBinsAreLastCallsResult ==
    (tcall.op # "none" /\ tcall.state = "returned") =>
        /\ t_set
        /\ Len(t_starts) = Len(t_stops)
        /\ SigCall =>
              /\ Len(t_stops) = Cardinality(Passes)
              /\ \A n \in 1..Len(t_stops) :
                    \E k \in Passes :
                        /\ n = Cardinality({j \in Passes : j <= k})
                        /\ t_stops[n] = arrival_times[k]
                        /\ t_starts[n] = arrival_times[IF PrevPass(k) = 0 THEN 1
                                                       ELSE PrevPass(k)]
        /\ ConstCall =>
              /\ Len(t_starts) =
                    Cardinality({k \in 0..MaxTime :
                        /\ tcall.dt > 0
                        /\ arrival_times[1] + k * tcall.dt
                              < arrival_times[Len(arrival_times)]})
              /\ \A n \in 1..Len(t_stops) :
                    /\ t_starts[n] = arrival_times[1] + (n - 1) * tcall.dt
                    /\ t_stops[n] - t_starts[n] = tcall.dt

\* a call that returned fewer bins than the instance held when it began
C10_Witness ==
    /\ tcall.op # "none"
    /\ tcall.state = "returned"
    /\ tcall.had_bins
    /\ Len(t_starts) = 0

\* ----------------------------------------------------------------
\* Calls from several threads on one constructed Rebinner
\* ----------------------------------------------------------------

\* what the call c returns or raises when it runs alone on the instance
RunAlone(c) ==
    IF c.op = "rebin"
    THEN RebinAll(<<c.a>>, <<>>, r_mask, r_starts, r_stops)
    ELSE IF c.op = "rebin_errors"
    THEN RebinErrorsAll(<<c.a>>, <<>>, r_mask, r_starts, r_stops)
    ELSE IF c.op = "get_new_start_and_stop"
    THEN NewStartAndStop(c.a, c.b, r_mask, r_starts, r_stops)
    ELSE [raised |-> "", result |-> n_bins]

SameAsAlone(c) ==
    /\ c.raised = RunAlone(c).raised
    /\ c.raised = "" => c.result = RunAlone(c).result

BinsAndMaskKept ==
    /\ r_starts' = r_starts
    /\ r_stops' = r_stops
    /\ r_mask' = r_mask

\* C11: no step of a rebin, rebin_errors, get_new_start_and_stop or n_bins
\* call, successful or failing, alone or interleaved with the steps of a call
\* from another thread, changes the starts, the stops or the mask, and every
\* call that has ended returned or raised what it does when run alone on the
\* same inputs.
C11_QueriesLeaveBinsAndReturnAsAlone ==
    /\ [][BinsAndMaskKept]_vars
    /\ [](\A t \in Threads : thr[t].pc = "done" => SameAsAlone(thr[t]))

\* two calls of different methods from two threads are both past their first
\* bin of an instance with two bins or more
C11_Witness ==
    /\ Len(r_starts) >= 2
    /\ thr["t1"].pc = "loop" /\ thr["t1"].k >= 1 /\ thr["t1"].op = "rebin"
    /\ thr["t2"].pc = "loop" /\ thr["t2"].k >= 1
    /\ thr["t2"].op = "get_new_start_and_stop"

\* ----------------------------------------------------------------
\* bin_by_bayesian_blocks
\* ----------------------------------------------------------------
BayesCall == tcall.op = "bin_by_bayesian_blocks"

\* C12: bin_by_bayesian_blocks ends with NotImplementedError whatever its
\* argument and whatever the instance holds (no bins yet, the bins of a
\* completed call, what a failed call left), and the step leaves the stored
\* starts and stops, whether they exist, and the arrival times as they were.
C12_BayesianBlocksRaisesAndKeepsState ==
    /\ [](BayesCall => tcall.state = "NotImplementedError")
    /\ [][BayesCall' =>
            /\ t_set' = t_set
            /\ t_starts' = t_starts
            /\ t_stops' = t_stops
            /\ arrival_times' = arrival_times]_vars

\* the call was made on an instance that holds bins, and they are still there
C12_Witness ==
    /\ BayesCall
    /\ tcall.had_bins
    /\ t_starts # <<>>
    /\ t_stops # <<>>

\* ----------------------------------------------------------------
\* A bin_by_significance call that fails
\* ----------------------------------------------------------------
SigFailed == SigCall /\ tcall.state \in {"raised", "IndexError"}

\* C13: a bin_by_significance call that fails (no arrival times, or the
\* getter or the significance raising at some arrival) leaves no partly built
\* bin list for the bins property to return: the lists the call emptied at its
\* start hold none of the bins it closed before it failed.
C13_FailedCallExposesNoPartialBins ==
    SigFailed => bins = << <<>>, <<>> >>

\* ----------------------------------------------------------------
\* Arguments of the wrong length
\* ----------------------------------------------------------------
Missized(vectors) == \E i \in 1..Len(vectors) : Len(vectors[i]) # Len(r_mask)

\* C14: rebin and rebin_errors called with several vectors of which one, at
\* whatever position, has not the length of the mask raise and return nothing,
\* not even the rebinned vectors that come before it; get_new_start_and_stop
\* raises when either boundary sequence has not that length; the construction
\* fails when the mask given has not the length of the reference vector.
C14_MissizedArgumentFailsWholeCall ==
    /\ (call.op \in {"rebin", "rebin_errors"} /\ Missized(call.vectors))
          => call.raised = "AssertionError" /\ call.result = <<>>
    /\ (call.op = "get_new_start_and_stop"
          /\ (Len(call.old_start) # Len(r_mask) \/ Len(call.old_stop) # Len(r_mask)))
          => call.raised = "AssertionError" /\ call.result = <<>>
    /\ (call.op = "__init__" /\ call.has_mask /\ Len(call.mask) # Len(call.v))
          => call.raised \in {"NotEnoughData", "AssertionError"}
               /\ r_state # "constructed"

\* rebin was called with a vector it can rebin followed by a vector one
\* element short, and raised
C14_Witness ==
    /\ call.op = "rebin"
    /\ Len(call.vectors) >= 2
    /\ RebinVector(call.vectors[1], r_mask, r_starts, r_stops).raised = ""
    /\ Len(call.vectors[2]) # Len(r_mask)
    /\ call.raised = "AssertionError"

\* ----------------------------------------------------------------
\* rebin_errors
\* ----------------------------------------------------------------
ErrorsCall == call.op = "rebin_errors" /\ Len(call.vectors) = 1

\* the square of a value Sqrt returned
Squared(q) == q.root * q.root + q.rem

\* the sum of the squares of e over bin i
SumOfSquares(e, i) ==
    SumSeq([j \in 1..(r_stops[i] - r_starts[i]) |->
               At(e, r_starts[i] + j - 1) * At(e, r_starts[i] + j - 1)])

\* C15: rebin_errors of one error vector of the length of the mask raises
\* nothing, whatever the entries (all zero on the included positions too),
\* and returns one sequence of n_bins entries; the square of the i-th entry is
\* the sum of the squares of the errors of bin i, and over a bin of a single
\* element the entry is the absolute value of that error.
C15_ErrorsAddInQuadrature ==
    (ErrorsCall /\ Len(call.vectors[1]) = Len(r_mask)) =>
        /\ call.raised = ""
        /\ Len(call.result) = 1
        /\ Len(call.result[1]) = n_bins
        /\ \A i \in Bins :
              /\ call.result[1][i].root >= 0
              /\ call.result[1][i].rem >= 0
              /\ call.result[1][i].rem <= 2 * call.result[1][i].root
              /\ Squared(call.result[1][i]) = SumOfSquares(call.vectors[1], i)
              /\ r_stops[i] = r_starts[i] + 1 =>
                    call.result[1][i] =
                        [root |-> Abs(At(call.vectors[1], r_starts[i])), rem |-> 0]

\* rebin_errors returned for a vector with a negative entry in a bin of one
\* element and entries that are not all zero in a bin of several
C15_Witness ==
    /\ ErrorsCall
    /\ call.raised = ""
    /\ \E i \in Bins :
          /\ r_stops[i] = r_starts[i] + 1
          /\ At(call.vectors[1], r_starts[i]) < 0
    /\ \E i \in Bins :
          /\ r_stops[i] > r_starts[i] + 1
          /\ call.result[1][i].rem > 0

\* rebin_errors returned for a vector of zeros, which rebin refuses
C15_WitnessZeros ==
    /\ ErrorsCall
    /\ call.raised = ""
    /\ n_bins >= 1
    /\ \A j \in 1..Len(call.vectors[1]) : call.vectors[1][j] = 0
    /\ RebinVector(call.vectors[1], r_mask, r_starts, r_stops).raised # ""

\* ----------------------------------------------------------------
\* Binning calls from two threads
\* ----------------------------------------------------------------
Stored(b) == binners[b]

BothDone == \A t \in Threads : callers[t].pc = "done"

\* C16: two binning calls (bin_by_significance or bin_by_constanst) from two
\* threads on separate instances leave on each instance the starts and stops
\* of its own call run alone, however their steps interleave; on one shared
\* instance there is an interleaving that leaves neither call's bins
\* (C16_Witness).
C16_SeparateInstancesKeepSequentialResult ==
    (BothDone /\ callers["t1"].on # callers["t2"].on) =>
        \A t \in Threads : Stored(callers[t].on) = SequentialBins(callers[t])

\* both calls have ended on the same instance, and what it stores is neither
\* the bins of the one nor the bins of the other: its starts and stops come
\* from different calls
C16_Witness ==
    /\ BothDone
    /\ callers["t1"].on = callers["t2"].on
    /\ \A t \in Threads : Stored(callers[t].on) # SequentialBins(callers[t])
    /\ \E t \in Threads, u \in Threads :
          /\ t # u
          /\ Stored(callers[t].on).starts = SequentialBins(callers[t]).starts
          /\ Stored(callers[t].on).stops = SequentialBins(callers[u]).stops

\* two bin_by_significance calls have ended on the same instance, which holds
\* more stops than starts or bins that neither call closed alone
C16_WitnessSignificance ==
    /\ BothDone
    /\ callers["t1"].on = callers["t2"].on
    /\ \A t \in Threads : callers[t].op = "bin_by_significance"
    /\ \A t \in Threads : Stored(callers[t].on) # SequentialBins(callers[t])

\* ----------------------------------------------------------------
\* The bins of a construction: mask gaps, the trailing bin, minimality, bounds
\* ----------------------------------------------------------------
N == Len(r_mask)

\* bin i is closed by a masked-out element: the element after it is excluded
ClosedByMask(i) == r_stops[i] < N /\ ~At(r_mask, r_stops[i])

\* C17: the bin open at a masked-out element is emitted, under the threshold
\* as it is: wherever an included element is followed by an excluded one a
\* bin stops there; and every bin whose total is under the threshold stops at
\* N or at a masked-out element.
C17_UnderThresholdBinClosedByMaskIsEmitted ==
    Constructed =>
        /\ \A j \in 1..(N - 1) :
              (At(r_mask, j - 1) /\ ~At(r_mask, j)) =>
                  \E i \in Bins : r_stops[i] = j /\ r_starts[i] < j
        /\ \A i \in Bins :
              BinTotal(i) < call.m => (r_stops[i] = N \/ ClosedByMask(i))

\* a bin under the threshold that a masked-out element closed, followed by
\* another bin
C17_Witness ==
    /\ Constructed
    /\ \E i \in Bins :
          /\ BinTotal(i) < call.m
          /\ ClosedByMask(i)
          /\ i < n_bins

\* the state of the pass over the reference vector when it ends
PassEnd == Loop(LoopInit, 0, call.v, call.m, r_mask)

\* C18: a bin still open when the pass ends is closed at N, under the
\* threshold or not, so that a last element the mask includes is in the last
\* bin, which stops at N; when no bin is open no bin is added, and no bin
\* stops after N.
C18_TrailingBinClosedAtEnd ==
    Constructed =>
        /\ r_starts = PassEnd.starts
        /\ PassEnd.bin_open =>
              /\ r_stops = Append(PassEnd.stops, N)
              /\ n_bins = Len(PassEnd.stops) + 1
        /\ ~PassEnd.bin_open => r_stops = PassEnd.stops
        /\ (N >= 1 /\ At(r_mask, N - 1)) =>
              /\ n_bins >= 1
              /\ r_stops[n_bins] = N
        /\ \A i \in Bins : r_stops[i] <= N

\* the pass ended with a bin open, which was closed at N under the threshold,
\* after an earlier bin
C18_Witness ==
    /\ Constructed
    /\ PassEnd.bin_open
    /\ n_bins >= 2
    /\ r_stops[n_bins] = N
    /\ BinTotal(n_bins) < call.m

\* C19: a bin is closed as soon as it reaches the threshold: the total of
\* the reference vector over every proper prefix [starts[i], k) of a bin,
\* starts[i] < k < stops[i], is strictly under the threshold.
C19_BinsAreGreedyMinimal ==
    Constructed =>
        \A i \in Bins :
            \A k \in (r_starts[i] + 1)..(r_stops[i] - 1) :
                SumSeq(Slice(call.v, r_starts[i], k)) < call.m

\* a bin of two elements or more that reaches the threshold exactly, with
\* another bin after it
C19_Witness ==
    /\ Constructed
    /\ \E i \in Bins :
          /\ r_stops[i] >= r_starts[i] + 2
          /\ BinTotal(i) = call.m
          /\ i < n_bins

\* C20: every bin is non-empty and within 0..N, its first and its last
\* element are included by the mask; there are no more bins than included
\* elements, and there is no bin exactly when the mask includes no element.
C20_BinsWithinBoundsOnIncludedElements ==
    Constructed =>
        /\ \A i \in Bins :
              /\ 0 <= r_starts[i]
              /\ r_starts[i] < r_stops[i]
              /\ r_stops[i] <= N
              /\ At(r_mask, r_starts[i])
              /\ At(r_mask, r_stops[i] - 1)
        /\ n_bins <= Cardinality(MaskedIn)
        /\ n_bins = 0 <=> MaskedIn = {}

\* two bins or more on a mask that excludes an element
C20_Witness ==
    /\ Constructed
    /\ n_bins >= 2
    /\ MaskedIn # {}
    /\ Cardinality(MaskedIn) < N

\* a construction that succeeds on a mask that excludes every element
C20_WitnessNoBins ==
    /\ Constructed
    /\ N >= 1
    /\ MaskedIn = {}
    /\ n_bins = 0

====
